---- MODULE Spec2Model ----
(***************************************************************************)
(* A model of the aadenman trading core: the TimerTick tick source, the    *)
(* PaperExecutor execution engine and the AgentRunner scheduler.           *)
(*                                                                         *)
(* JavaScript numbers are modelled as extended rationals: a record         *)
(* [n |-> numerator, d |-> denominator] in lowest terms with d > 0 for a   *)
(* finite value, and d = 0 for the three IEEE-754 specials (n = 1 is       *)
(* +Infinity, n = -1 is -Infinity, n = 0 is NaN).  Arithmetic on finite    *)
(* values is exact (rounding error is not modelled); the sign of zero is   *)
(* not modelled (every divisor the code uses is a price or a sum of        *)
(* magnitudes, which is never -0).                                         *)
(***************************************************************************)
EXTENDS Integers, Sequences, FiniteSets

(***************************************************************************)
(* Bounds of the model.                                                    *)
(***************************************************************************)
\* cycles the scheduler may start in one behaviour
MaxCycles == 3
\* last value of the clock (Date.now()) the model follows
MaxTime == 5
\* cooldownMs of the runner's configuration, in the clock's units
Cooldown == 2
\* pending timers of a TimerTick whose handle this.timer no longer holds
MaxOrphans == 1
\* calls of the execution engine followed when it is driven directly
MaxOrders == 3
\* calls of the execution engine followed when earlier calls are made again
MaxCalls == 4
\* WebSockets an OrderlyWebSocketClient creates in one behaviour
MaxSockets == 2

(***************************************************************************)
(* Numbers.                                                                *)
(***************************************************************************)
AbsInt(i) == IF i < 0 THEN -i ELSE i

SignInt(i) == IF i < 0 THEN -1 ELSE IF i > 0 THEN 1 ELSE 0

RECURSIVE GCD(_, _)
GCD(a, b) == IF b = 0 THEN a ELSE GCD(b, a % b)

\* the number n/d in lowest terms (d >= 0; d = 0 gives a special)
R(n, d) ==
    IF d = 0 THEN [n |-> SignInt(n), d |-> 0]
    ELSE LET g == GCD(AbsInt(n), d) IN [n |-> n \div g, d |-> d \div g]

Zero == R(0, 1)
One == R(1, 1)
NaN == R(0, 0)

IsNaN(x) == x.d = 0 /\ x.n = 0
IsInf(x) == x.d = 0 /\ x.n # 0

Neg(x) == [n |-> -x.n, d |-> x.d]

\* x + y
Add(x, y) ==
    IF IsNaN(x) \/ IsNaN(y) THEN NaN
    ELSE IF IsInf(x) /\ IsInf(y) THEN (IF x.n = y.n THEN x ELSE NaN)
    ELSE IF x.d = 0 \/ y.d = 0 THEN R(x.n * y.d + y.n * x.d, 0)
    ELSE LET g == GCD(x.d, y.d) IN
         R(x.n * (y.d \div g) + y.n * (x.d \div g), x.d * (y.d \div g))

\* x - y
Sub(x, y) == Add(x, Neg(y))

\* x * y (Infinity * 0 is NaN)
Mul(x, y) ==
    IF x.d = 0 \/ y.d = 0 THEN R(x.n * y.n, 0)
    ELSE LET g == GCD(AbsInt(x.n), y.d)
             h == GCD(AbsInt(y.n), x.d) IN
         R((x.n \div g) * (y.n \div h), (x.d \div h) * (y.d \div g))

\* 1 / y (1 / 0 is +Infinity, 1 / Infinity is 0)
Recip(y) == R(SignInt(y.n) * y.d, AbsInt(y.n))

\* x / y
Div(x, y) == Mul(x, Recip(y))

\* Math.abs
AbsR(x) == [n |-> AbsInt(x.n), d |-> x.d]

\* x > y: false when either is NaN
Gt(x, y) ==
    /\ ~IsNaN(x)
    /\ ~IsNaN(y)
    /\ IF x.d = 0 \/ y.d = 0 THEN x.n * y.d > y.n * x.d \/ (x.d = y.d /\ x.n > y.n)
       ELSE LET g == GCD(x.d, y.d) IN x.n * (y.d \div g) > y.n * (x.d \div g)

\* x >= y taken for x > y
GeStrict(x, y) == Gt(x, y)

\* x >= y: false when either is NaN
Ge(x, y) ==
    /\ ~IsNaN(x)
    /\ ~IsNaN(y)
    /\ IF x.d = 0 \/ y.d = 0 THEN x.n * y.d > y.n * x.d \/ (x.d = y.d /\ x.n >= y.n)
       ELSE LET g == GCD(x.d, y.d) IN x.n * (y.d \div g) >= y.n * (x.d \div g)

\* x === y on numbers: NaN equals nothing, itself included
EqNum(x, y) == ~IsNaN(x) /\ ~IsNaN(y) /\ x = y

\* Math.min and Math.max: NaN when either argument is NaN
MathMin(x, y) == IF IsNaN(x) \/ IsNaN(y) THEN NaN ELSE IF Gt(x, y) THEN y ELSE x

MathMax(x, y) == IF IsNaN(x) \/ IsNaN(y) THEN NaN ELSE IF Gt(x, y) THEN x ELSE y

\* a value that is not of type number (undefined, null, a string, an object)
NonNumeric == [n |-> 0, d |-> -1]

\* typeof x === 'number'
IsNumber(x) == x.d >= 0

(***************************************************************************)
(* PaperExecutor: the execution engine.                                    *)
(***************************************************************************)
NonePosition == [qty |-> Zero, avgPrice |-> Zero, side |-> "NONE"]

\* a fill at the price of the context, without slippage
applySlippageNone(slip, price, action) == price

\* slippage in favour of the order: a BUY fills lower, a SELL higher
applySlippageSwapped(slip, price, action) ==
    IF action = "BUY" THEN Mul(price, Sub(One, slip))
    ELSE IF action = "SELL" THEN Mul(price, Add(One, slip))
    ELSE price

\* PaperExecutor.applySlippage
applySlippage(slip, price, action) ==
    IF action = "BUY" THEN Mul(price, Add(One, slip))
    ELSE IF action = "SELL" THEN Mul(price, Sub(One, slip))
    ELSE price

\* PaperExecutor.calculatePositionValue
calculatePositionValue(position, currentPrice) ==
    IF position.side = "NONE" THEN Zero
    ELSE LET qty == AbsR(position.qty) IN
         IF position.side = "LONG"
         THEN Mul(Sub(currentPrice, position.avgPrice), qty)
         ELSE Mul(Sub(position.avgPrice, currentPrice), qty)

\* a successful ExecutionResult, equity marked at context.currentPrice
Filled(action, qty, price, newCash, newPosition, pnl, context) ==
    [success |-> TRUE, action |-> action, qty |-> qty, price |-> price,
     cash |-> newCash, position |-> newPosition,
     equity |-> Add(newCash, calculatePositionValue(newPosition, context.currentPrice)),
     hasPnl |-> TRUE, pnl |-> pnl, error |-> FALSE]

\* the ExecutionResult of the catch block of PaperExecutor.execute
Failed(action, context) ==
    [success |-> FALSE, action |-> action, qty |-> Zero, price |-> context.currentPrice,
     cash |-> context.cash, position |-> context.position, equity |-> context.equity,
     hasPnl |-> FALSE, pnl |-> Zero, error |-> TRUE]

\* buy without the cash check of its accumulating branch
buyThrowsNoCashCheck(fee, qty, price, context) ==
    /\ context.position.side = "SHORT"
    /\ LET shortQty == AbsR(context.position.qty)
           closeFee == Mul(Mul(shortQty, price), fee)
           pnl == Sub(Mul(Sub(context.position.avgPrice, price), shortQty), closeFee)
           remainingQty == Sub(qty, shortQty)
           longCost == Mul(remainingQty, price) IN
       /\ Ge(qty, shortQty)
       /\ Gt(remainingQty, Zero)
       /\ Gt(Add(longCost, Mul(longCost, fee)), Add(context.cash, pnl))

\* buy checking the flip remainder against the cash of the context
buyThrowsPreCloseCash(fee, qty, price, context) ==
    IF context.position.side \in {"NONE", "LONG"}
    THEN LET cost == Mul(qty, price) IN
         Gt(Add(cost, Mul(cost, fee)), context.cash)
    ELSE LET shortQty == AbsR(context.position.qty)
             remainingQty == Sub(qty, shortQty)
             longCost == Mul(remainingQty, price) IN
         /\ Ge(qty, shortQty)
         /\ Gt(remainingQty, Zero)
         /\ Gt(Add(longCost, Mul(longCost, fee)), context.cash)

\* buy applying the cash check of the accumulating branch to a closing BUY too
buyThrowsOnClose(fee, qty, price, context) ==
    LET cost == Mul(qty, price) IN
    IF context.position.side \in {"NONE", "LONG"}
    THEN Gt(Add(cost, Mul(cost, fee)), context.cash)
    ELSE LET shortQty == AbsR(context.position.qty)
             closeFee == Mul(Mul(shortQty, price), fee)
             pnl == Sub(Mul(Sub(context.position.avgPrice, price), shortQty), closeFee)
             remainingQty == Sub(qty, shortQty)
             longCost == Mul(remainingQty, price) IN
         \/ Gt(Add(cost, Mul(cost, fee)), context.cash)
         \/ /\ Ge(qty, shortQty)
            /\ Gt(remainingQty, Zero)
            /\ Gt(Add(longCost, Mul(longCost, fee)), Add(context.cash, pnl))

\* the two throw statements of PaperExecutor.buy
buyThrows(fee, qty, price, context) ==
    IF context.position.side \in {"NONE", "LONG"}
    THEN LET cost == Mul(qty, price) IN
         Gt(Add(cost, Mul(cost, fee)), context.cash)
    ELSE LET shortQty == AbsR(context.position.qty)
             closeFee == Mul(Mul(shortQty, price), fee)
             pnl == Sub(Mul(Sub(context.position.avgPrice, price), shortQty), closeFee)
             remainingQty == Sub(qty, shortQty)
             longCost == Mul(remainingQty, price) IN
         /\ Ge(qty, shortQty)
         /\ Gt(remainingQty, Zero)
         /\ Gt(Add(longCost, Mul(longCost, fee)), Add(context.cash, pnl))

\* buy blending the closed lot into the average price of a flip
buyBlendsOnFlip(fee, qty, price, context) ==
    LET pos == context.position IN
    IF pos.side \in {"NONE", "LONG"}
    THEN LET cost == Mul(qty, price)
             totalCost == Add(cost, Mul(cost, fee))
             totalQty == Add(pos.qty, qty)
             avgPrice == IF pos.side = "NONE" THEN price
                         ELSE Div(Add(Mul(pos.avgPrice, pos.qty), Mul(price, qty)), totalQty) IN
         Filled("BUY", qty, price, Sub(context.cash, totalCost),
                [qty |-> totalQty, avgPrice |-> avgPrice, side |-> "LONG"], Zero, context)
    ELSE LET shortQty == AbsR(pos.qty) IN
         IF Ge(qty, shortQty)
         THEN LET closeFee == Mul(Mul(shortQty, price), fee)
                  pnl == Sub(Mul(Sub(pos.avgPrice, price), shortQty), closeFee)
                  remainingQty == Sub(qty, shortQty)
                  longCost == Mul(remainingQty, price)
                  totalLongCost == Add(longCost, Mul(longCost, fee)) IN
              IF Gt(remainingQty, Zero)
              THEN Filled("BUY", qty, price, Sub(Add(context.cash, pnl), totalLongCost),
                          [qty |-> remainingQty,
                           avgPrice |-> Div(Add(Mul(pos.avgPrice, shortQty), Mul(price, qty)),
                                            Add(shortQty, qty)),
                           side |-> "LONG"],
                          pnl, context)
              ELSE Filled("BUY", qty, price, Add(context.cash, pnl), NonePosition, pnl, context)
         ELSE LET partFee == Mul(Mul(qty, price), fee)
                  pnl == Sub(Mul(Sub(pos.avgPrice, price), qty), partFee) IN
              Filled("BUY", qty, price, Add(context.cash, pnl),
                     [qty |-> Add(pos.qty, qty), avgPrice |-> pos.avgPrice, side |-> "SHORT"],
                     pnl, context)

\* PaperExecutor.buy, when it does not throw
buy(fee, qty, price, context) ==
    LET pos == context.position IN
    IF pos.side \in {"NONE", "LONG"}
    THEN LET cost == Mul(qty, price)
             totalCost == Add(cost, Mul(cost, fee))
             totalQty == Add(pos.qty, qty)
             avgPrice == IF pos.side = "NONE" THEN price
                         ELSE Div(Add(Mul(pos.avgPrice, pos.qty), Mul(price, qty)), totalQty) IN
         Filled("BUY", qty, price, Sub(context.cash, totalCost),
                [qty |-> totalQty, avgPrice |-> avgPrice, side |-> "LONG"], Zero, context)
    ELSE LET shortQty == AbsR(pos.qty) IN
         IF Ge(qty, shortQty)
         THEN LET closeFee == Mul(Mul(shortQty, price), fee)
                  pnl == Sub(Mul(Sub(pos.avgPrice, price), shortQty), closeFee)
                  remainingQty == Sub(qty, shortQty)
                  longCost == Mul(remainingQty, price)
                  totalLongCost == Add(longCost, Mul(longCost, fee)) IN
              IF Gt(remainingQty, Zero)
              THEN Filled("BUY", qty, price, Sub(Add(context.cash, pnl), totalLongCost),
                          [qty |-> remainingQty, avgPrice |-> price, side |-> "LONG"],
                          pnl, context)
              ELSE Filled("BUY", qty, price, Add(context.cash, pnl), NonePosition, pnl, context)
         ELSE LET partFee == Mul(Mul(qty, price), fee)
                  pnl == Sub(Mul(Sub(pos.avgPrice, price), qty), partFee) IN
              Filled("BUY", qty, price, Add(context.cash, pnl),
                     [qty |-> Add(pos.qty, qty), avgPrice |-> pos.avgPrice, side |-> "SHORT"],
                     pnl, context)

\* sell taking the last fill price as the average price of a growing short
sellAveragesLast(fee, qty, price, context) ==
    LET pos == context.position IN
    IF pos.side \in {"NONE", "SHORT"}
    THEN LET proceeds == Mul(qty, price)
             netProceeds == Sub(proceeds, Mul(proceeds, fee))
             totalQty == Add(AbsR(pos.qty), qty) IN
         Filled("SELL", qty, price, Add(context.cash, netProceeds),
                [qty |-> Neg(totalQty), avgPrice |-> price, side |-> "SHORT"], Zero, context)
    ELSE LET longQty == pos.qty IN
         IF Ge(qty, longQty)
         THEN LET closeProceeds == Mul(longQty, price)
                  closeFee == Mul(closeProceeds, fee)
                  netCloseProceeds == Sub(closeProceeds, closeFee)
                  pnl == Sub(Mul(Sub(price, pos.avgPrice), longQty), closeFee)
                  remainingQty == Sub(qty, longQty)
                  shortProceeds == Mul(remainingQty, price)
                  netShortProceeds == Sub(shortProceeds, Mul(shortProceeds, fee)) IN
              IF Gt(remainingQty, Zero)
              THEN Filled("SELL", qty, price,
                          Add(Add(context.cash, netCloseProceeds), netShortProceeds),
                          [qty |-> Neg(remainingQty), avgPrice |-> price, side |-> "SHORT"],
                          pnl, context)
              ELSE Filled("SELL", qty, price, Add(context.cash, netCloseProceeds),
                          NonePosition, pnl, context)
         ELSE LET proceeds == Mul(qty, price)
                  partFee == Mul(proceeds, fee)
                  netProceeds == Sub(proceeds, partFee)
                  pnl == Sub(Mul(Sub(price, pos.avgPrice), qty), partFee) IN
              Filled("SELL", qty, price, Add(context.cash, netProceeds),
                     [qty |-> Sub(pos.qty, qty), avgPrice |-> pos.avgPrice, side |-> "LONG"],
                     pnl, context)

\* PaperExecutor.sell (it has no throw statement)
sell(fee, qty, price, context) ==
    LET pos == context.position IN
    IF pos.side \in {"NONE", "SHORT"}
    THEN LET proceeds == Mul(qty, price)
             netProceeds == Sub(proceeds, Mul(proceeds, fee))
             totalQty == Add(AbsR(pos.qty), qty)
             avgPrice == IF pos.side = "NONE" THEN price
                         ELSE Div(Add(Mul(pos.avgPrice, AbsR(pos.qty)), Mul(price, qty)),
                                  totalQty) IN
         Filled("SELL", qty, price, Add(context.cash, netProceeds),
                [qty |-> Neg(totalQty), avgPrice |-> avgPrice, side |-> "SHORT"], Zero, context)
    ELSE LET longQty == pos.qty IN
         IF Ge(qty, longQty)
         THEN LET closeProceeds == Mul(longQty, price)
                  closeFee == Mul(closeProceeds, fee)
                  netCloseProceeds == Sub(closeProceeds, closeFee)
                  pnl == Sub(Mul(Sub(price, pos.avgPrice), longQty), closeFee)
                  remainingQty == Sub(qty, longQty)
                  shortProceeds == Mul(remainingQty, price)
                  netShortProceeds == Sub(shortProceeds, Mul(shortProceeds, fee)) IN
              IF Gt(remainingQty, Zero)
              THEN Filled("SELL", qty, price,
                          Add(Add(context.cash, netCloseProceeds), netShortProceeds),
                          [qty |-> Neg(remainingQty), avgPrice |-> price, side |-> "SHORT"],
                          pnl, context)
              ELSE Filled("SELL", qty, price, Add(context.cash, netCloseProceeds),
                          NonePosition, pnl, context)
         ELSE LET proceeds == Mul(qty, price)
                  partFee == Mul(proceeds, fee)
                  netProceeds == Sub(proceeds, partFee)
                  pnl == Sub(Mul(Sub(price, pos.avgPrice), qty), partFee) IN
              Filled("SELL", qty, price, Add(context.cash, netProceeds),
                     [qty |-> Sub(pos.qty, qty), avgPrice |-> pos.avgPrice, side |-> "LONG"],
                     pnl, context)

\* execute without its HOLD branch
paperExecuteNoHold(slip, fee, action, qty, context) ==
    LET executionPrice == applySlippage(slip, context.currentPrice, action) IN
    IF action = "BUY"
    THEN IF buyThrows(fee, qty, executionPrice, context)
         THEN Failed(action, context)
         ELSE buy(fee, qty, executionPrice, context)
    ELSE sell(fee, qty, executionPrice, context)

\* PaperExecutor.execute
paperExecute(slip, fee, action, qty, context) ==
    IF action = "HOLD"
    THEN [success |-> TRUE, action |-> "HOLD", qty |-> Zero, price |-> context.currentPrice,
          cash |-> context.cash, position |-> context.position, equity |-> context.equity,
          hasPnl |-> FALSE, pnl |-> Zero, error |-> FALSE]
    ELSE LET executionPrice == applySlippage(slip, context.currentPrice, action) IN
         IF action = "BUY"
         THEN IF buyThrows(fee, qty, executionPrice, context)
              THEN Failed(action, context)
              ELSE buy(fee, qty, executionPrice, context)
         ELSE sell(fee, qty, executionPrice, context)

(***************************************************************************)
(* LLMAgent: the Decision Provider's adapter.                              *)
(***************************************************************************)
\* the decision of both catch blocks of LLMAgent
HoldDecision == [action |-> "HOLD", qty |-> Zero]

\* stands for an exception that leaves decide(), in place of a decision
Thrown == [action |-> "throw", qty |-> Zero]

\* parseDecision without the clamp of qty
parseDecisionNoClamp(resp) ==
    IF resp.kind # "json" THEN HoldDecision
    ELSE IF resp.action = "" \/ resp.action \notin {"BUY", "SELL", "HOLD"} THEN HoldDecision
    ELSE [action |-> resp.action, qty |-> IF IsNumber(resp.qty) THEN resp.qty ELSE Zero]

\* LLMAgent.parseDecision on a response text: kind "text" has no JSON object
\* in it or one JSON.parse rejects, kind "json" parses to an object whose
\* action is "" when it is missing (or falsy) and whose qty may be any value
parseDecision(resp) ==
    IF resp.kind # "json" THEN HoldDecision
    ELSE IF resp.action = "" \/ resp.action \notin {"BUY", "SELL", "HOLD"} THEN HoldDecision
    ELSE LET qty == IF IsNumber(resp.qty) THEN resp.qty ELSE Zero IN
         [action |-> resp.action, qty |-> MathMax(Zero, MathMin(One, qty))]

\* decide without its try/catch
llmDecideNoCatch(resp) ==
    IF resp.kind = "error" THEN Thrown ELSE parseDecision(resp)

\* LLMAgent.decide: kind "error" is a request that rejects or a first content
\* block that is not text
llmDecide(resp) ==
    IF resp.kind = "error" THEN HoldDecision ELSE parseDecision(resp)

(***************************************************************************)
(* Inputs the environment may supply.                                      *)
(***************************************************************************)
\* config.initialCash
InitialCash == R(12, 1)

\* the (slippage, takerFee) pairs a PaperExecutor may be configured with
EngineConfigs == {<<R(1, 4), R(1, 4)>>}

\* values getCurrentPrice() may return
Prices == {One, R(2, 1)}

\* values getCurrentPrice() may return over a session: 0 (PriceManager.getPrice
\* of a symbol without a price), and a price that quadruples
SessionPrices == {Zero, One, R(4, 1)}

\* decisions agent.decide() may resolve to: qty is a fraction of equity
Decisions ==
    {[action |-> "HOLD", qty |-> Zero],
     [action |-> "BUY", qty |-> Zero],
     [action |-> "BUY", qty |-> R(1, 2)],
     [action |-> "BUY", qty |-> One],
     [action |-> "SELL", qty |-> R(1, 2)]}

\* values decide() of any Agent implementation may resolve to at run time:
\* the typed ones, and an action outside ActionType, a HOLD that carries a
\* fraction, fractions outside [0,1] and a qty that is not a number
AnyDecisions ==
    Decisions \cup
    {[action |-> "DANCE", qty |-> R(1, 2)],
     [action |-> "HOLD", qty |-> R(1, 2)],
     [action |-> "SELL", qty |-> R(2, 1)],
     [action |-> "BUY", qty |-> R(-1, 2)],
     [action |-> "BUY", qty |-> NonNumeric]}

\* what the request of LLMAgent.decide may come back with
Responses ==
    {[kind |-> "error", action |-> "", qty |-> Zero],
     [kind |-> "text", action |-> "", qty |-> Zero]}
    \cup
    {[kind |-> "json", action |-> a, qty |-> q] :
        a \in {"", "DANCE", "HOLD", "BUY", "SELL"},
        q \in {R(1, 2), R(2, 1), R(-1, 2), NonNumeric}}

\* the executor configurations, initial cash, prices and quantities of the
\* calls made on the engine directly
EngineSetups == {<<Zero, Zero>>, <<R(1, 4), R(1, 4)>>}

EngineCash == {R(340, 1)}

EnginePrices == {R(100, 1), R(110, 1)}

EngineQtys == {Zero, One, R(3, 1), R(5, 1)}

\* quantities and prices of the calls that are made again
ReplayQtys == {Zero, One}
ReplayPrices == {R(100, 1)}

(***************************************************************************)
(* State.                                                                  *)
(***************************************************************************)
VARIABLES
    \* AgentRunner
    running, executing, lastExecutionTime, cash, position, equity,
    \* the cycles in flight: for each, where its execute() is suspended
    cycles,
    \* PaperExecutor
    slippage, takerFee,
    \* TimerTick: running, whether this.timer is null, a handle that has fired
    \* ("stale") or a pending timer ("live"); pending timers whose handle was lost
    tickRunning, timer, orphans,
    \* EventEmitter: the 'tick' listeners in order of registration
    listeners,
    \* an emit('tick') in progress and the listeners it has still to call
    firing, dispatch,
    \* Date.now()
    now,
    \* history: cycles started, their start times, onResult calls per cycle,
    \* the context price of the last committed fill, an exception that left onTick
    started, cycleStarts, onResultCalls, markPrice, escaped,
    \* history: what onTick did with the tick of the emit in progress, how the
    \* cycle settled last ended, whether stop() has ever taken effect
    tickOutcome, lastOutcome, stopped,
    \* history: what decide() gave the cycle in flight, the last call of
    \* executor.execute, and (where the engine is called directly) the fills
    \* accumulated into the position since it was NONE
    decided, order, lots,
    \* history, where the engine is called directly: every call made so far, and
    \* the last call that was made again with the context it had been made with
    calls, replayed,
    \* OrderlyWebSocketClient: this.ws (0 for null, or the number of a socket),
    \* the pending timers set by scheduleReconnect, whether this.pingTimer holds
    \* a running interval, and ping intervals that run on although this.pingTimer
    \* no longer holds them
    ws, reconnectTimer, pingTimer, pingOrphans,
    \* the WebSockets the client has created: the readyState of each and whether
    \* its 'open' handler is suspended in sendAuth
    sockets,
    \* history: disconnect() was the last call of the user, and connect() has
    \* been called by the reconnect timer since
    disconnected, reconnected

runnerVars == <<running, executing, lastExecutionTime>>
accountVars == <<cash, position, equity>>
engineVars == <<slippage, takerFee>>
tickVars == <<tickRunning, timer, orphans>>
emitVars == <<firing, dispatch>>
historyVars == <<started, cycleStarts, onResultCalls, markPrice, escaped,
                 tickOutcome, lastOutcome, stopped>>
callVars == <<decided, order, lots>>
replayVars == <<calls, replayed>>
clientVars == <<ws, reconnectTimer, pingTimer, pingOrphans, sockets, disconnected,
                reconnected>>
vars == <<runnerVars, accountVars, cycles, engineVars, tickVars, listeners, emitVars,
          now, historyVars, callVars, replayVars, clientVars>>

NoResult == Failed("HOLD", [currentPrice |-> Zero, position |-> NonePosition,
                            cash |-> Zero, equity |-> Zero])

\* no decision received, no executor call made, no fills accumulated
NoResponse == [kind |-> "none", action |-> "", qty |-> Zero]

NoDecision == [response |-> NoResponse, decision |-> [action |-> "none", qty |-> Zero]]

NoOrder == [n |-> 0, action |-> "none", qty |-> Zero,
            context |-> [currentPrice |-> Zero, position |-> NonePosition,
                         cash |-> Zero, equity |-> Zero],
            result |-> NoResult]

NoLots == [side |-> "NONE", count |-> 0, qty |-> Zero, cost |-> Zero]

\* no call made again
NoReplay == [i |-> 0, result |-> NoResult]

\* AgentRunner constructor, PaperExecutor constructor, TimerTick constructor
Init ==
    /\ running = FALSE
    /\ executing = FALSE
    /\ lastExecutionTime = 0
    /\ cash = InitialCash
    /\ equity = InitialCash
    /\ position = NonePosition
    /\ cycles = <<>>
    /\ \E cfg \in EngineConfigs : slippage = cfg[1] /\ takerFee = cfg[2]
    /\ tickRunning = FALSE
    /\ timer = "null"
    /\ orphans = 0
    /\ listeners = <<>>
    /\ firing = FALSE
    /\ dispatch = <<>>
    /\ now = Cooldown
    /\ started = 0
    /\ cycleStarts = <<>>
    /\ onResultCalls = [c \in 1..MaxCycles |-> 0]
    /\ markPrice = Zero
    /\ escaped = FALSE
    /\ tickOutcome = "none"
    /\ lastOutcome = "none"
    /\ stopped = FALSE
    /\ decided = NoDecision
    /\ order = NoOrder
    /\ lots = NoLots
    /\ calls = <<>>
    /\ replayed = NoReplay
    /\ ws = 0
    /\ reconnectTimer = 0
    /\ pingTimer = FALSE
    /\ pingOrphans = 0
    /\ sockets = <<>>
    /\ disconnected = FALSE
    /\ reconnected = FALSE

(***************************************************************************)
(* TimerTick and its EventEmitter.                                         *)
(***************************************************************************)
\* a synchronous call can be made between event-loop tasks, or by the foreign
\* subscriber while emit('tick') is calling it
CallerActive == ~firing \/ (dispatch # <<>> /\ Head(dispatch) = "other")

\* the sequence s without its last occurrence of e (EventEmitter.off)
RECURSIVE RemoveLast(_, _)
RemoveLast(s, e) ==
    IF s = <<>> THEN <<>>
    ELSE IF s[Len(s)] = e THEN SubSeq(s, 1, Len(s) - 1)
    ELSE Append(RemoveLast(SubSeq(s, 1, Len(s) - 1), e), s[Len(s)])

Count(s, e) == Cardinality({i \in 1..Len(s) : s[i] = e})

\* TimerTick.scheduleNext: the state of <<timer, orphans>> after it
scheduleNext(isRunning, t, o) ==
    IF ~isRunning THEN <<t, o>>
    ELSE <<"live", IF t = "live" THEN o + 1 ELSE o>>

\* TimerTick.start: the state of <<tickRunning, timer, orphans>> after it
tickStart(isRunning, t, o) ==
    IF isRunning THEN <<isRunning, t, o>>
    ELSE <<TRUE>> \o scheduleNext(TRUE, t, o)

\* TimerTick.stop: the state of <<tickRunning, timer, orphans>> after it
tickStop(isRunning, t, o) ==
    <<FALSE, "null", o>>

\* the model follows at most MaxOrphans timers whose handle was lost: a handle
\* is lost when start() is called inside a tick callback, before the callback
\* of the timer that fired calls scheduleNext
OrphanRoom == ~firing \/ orphans < MaxOrphans

\* TimerTick.start() called on the shared tick source
TickStart ==
    /\ CallerActive
    /\ LET tk == tickStart(tickRunning, timer, orphans) IN
       /\ tickRunning \/ OrphanRoom
       /\ tickRunning' = tk[1] /\ timer' = tk[2] /\ orphans' = tk[3]
    /\ UNCHANGED <<runnerVars, accountVars, cycles, engineVars, listeners, emitVars,
                   now, historyVars, callVars,
                   replayVars, clientVars>>

\* TimerTick.stop() called on the shared tick source
TickStop ==
    /\ CallerActive
    /\ LET tk == tickStop(tickRunning, timer, orphans) IN
       tickRunning' = tk[1] /\ timer' = tk[2] /\ orphans' = tk[3]
    /\ UNCHANGED <<runnerVars, accountVars, cycles, engineVars, listeners, emitVars,
                   now, historyVars, callVars,
                   replayVars, clientVars>>

\* tick.onTick(cb) by a foreign subscriber (it registers one callback)
OtherOnTick ==
    /\ CallerActive
    /\ Count(listeners, "other") = 0
    /\ listeners' = Append(listeners, "other")
    /\ UNCHANGED <<runnerVars, accountVars, cycles, engineVars, tickVars, emitVars,
                   now, historyVars, callVars,
                   replayVars, clientVars>>

\* tick.offTick(cb) by the foreign subscriber
OtherOffTick ==
    /\ CallerActive
    /\ Count(listeners, "other") > 0
    /\ listeners' = RemoveLast(listeners, "other")
    /\ UNCHANGED <<runnerVars, accountVars, cycles, engineVars, tickVars, emitVars,
                   now, historyVars, callVars,
                   replayVars, clientVars>>

\* a pending timer fires: the callback of scheduleNext begins emit('tick'),
\* which calls a copy of the listener list
TimerFires ==
    /\ ~firing
    /\ \/ timer = "live" /\ timer' = "stale" /\ orphans' = orphans
       \/ orphans > 0 /\ orphans' = orphans - 1 /\ timer' = timer
    /\ firing' = TRUE
    /\ dispatch' = listeners
    /\ UNCHANGED <<runnerVars, accountVars, cycles, engineVars, tickRunning, listeners,
                   now, historyVars, callVars,
                   replayVars, clientVars>>

\* the foreign subscriber's callback returns
OtherReturns ==
    /\ firing
    /\ dispatch # <<>>
    /\ Head(dispatch) = "other"
    /\ dispatch' = Tail(dispatch)
    /\ UNCHANGED <<runnerVars, accountVars, cycles, engineVars, tickVars, listeners,
                   firing, now, historyVars, callVars,
                   replayVars, clientVars>>

\* the foreign subscriber's callback throws: emit('tick') lets the exception
\* through, the listeners after it are not called and the timer callback ends
\* before its scheduleNext (a process that survives the uncaught exception)
OtherThrows ==
    /\ firing
    /\ dispatch # <<>>
    /\ Head(dispatch) = "other"
    /\ dispatch' = <<>>
    /\ firing' = FALSE
    /\ tickOutcome' = "none"
    /\ UNCHANGED <<runnerVars, accountVars, cycles, engineVars, tickVars, listeners,
                   now, started, cycleStarts, onResultCalls, markPrice, escaped,
                   lastOutcome, stopped, callVars, replayVars, clientVars>>

\* emit('tick') has called every listener: the timer callback calls scheduleNext
EmitReturns ==
    /\ firing
    /\ dispatch = <<>>
    /\ LET tk == scheduleNext(tickRunning, timer, orphans) IN
       timer' = tk[1] /\ orphans' = tk[2]
    /\ firing' = FALSE
    /\ tickOutcome' = "none"
    /\ UNCHANGED <<runnerVars, accountVars, cycles, engineVars, tickRunning, listeners,
                   dispatch, now, started, cycleStarts, onResultCalls, markPrice,
                   escaped, lastOutcome, stopped, callVars,
                   replayVars, clientVars>>

(***************************************************************************)
(* AgentRunner: the scheduler.                                             *)
(***************************************************************************)
\* start() without its running check
RunnerStartNoGuard ==
    /\ CallerActive
    /\ LET tk == tickStart(tickRunning, timer, orphans) IN
       /\ tickRunning \/ OrphanRoom
       /\ Len(listeners) < 3
       /\ running' = TRUE
       /\ listeners' = Append(listeners, "runner")
       /\ tickRunning' = tk[1] /\ timer' = tk[2] /\ orphans' = tk[3]
    /\ UNCHANGED <<executing, lastExecutionTime, accountVars, cycles, engineVars,
                   emitVars, now, historyVars, callVars,
                   replayVars, clientVars>>

\* AgentRunner.start
RunnerStart ==
    /\ CallerActive
    /\ IF running
       THEN UNCHANGED <<running, listeners, tickVars>>
       ELSE LET tk == tickStart(tickRunning, timer, orphans) IN
            /\ tickRunning \/ OrphanRoom
            /\ running' = TRUE
            /\ listeners' = Append(listeners, "runner")
            /\ tickRunning' = tk[1] /\ timer' = tk[2] /\ orphans' = tk[3]
    /\ UNCHANGED <<executing, lastExecutionTime, accountVars, cycles, engineVars,
                   emitVars, now, historyVars, callVars,
                   replayVars, clientVars>>

\* AgentRunner.stop
RunnerStop ==
    /\ CallerActive
    /\ IF ~running
       THEN UNCHANGED <<running, listeners, tickVars>>
       ELSE LET tk == tickStop(tickRunning, timer, orphans) IN
            /\ running' = FALSE
            /\ tickRunning' = tk[1] /\ timer' = tk[2] /\ orphans' = tk[3]
            /\ listeners' = RemoveLast(listeners, "runner")
    /\ stopped' = (stopped \/ running)
    /\ UNCHANGED <<executing, lastExecutionTime, accountVars, cycles, engineVars,
                   emitVars, now, started, cycleStarts, onResultCalls, markPrice,
                   escaped, tickOutcome, lastOutcome, callVars,
                   replayVars, clientVars>>

\* onTick without its executing check
tickCheckNoExecuting(isExecuting, t, last) ==
    IF t - last < Cooldown THEN "cooldown" ELSE "accepted"

\* onTick without its cooldown check
tickCheckNoCooldown(isExecuting, t, last) ==
    IF isExecuting THEN "executing" ELSE "accepted"

\* the two checks of AgentRunner.onTick: why the tick is dropped, or "accepted"
tickCheck(isExecuting, t, last) ==
    IF isExecuting THEN "executing"
    ELSE IF t - last < Cooldown THEN "cooldown"
    ELSE "accepted"

\* onTick stamping lastExecutionTime before its cooldown check
onTickFlagsStamp(isExecuting, t, last) ==
    IF isExecuting THEN <<isExecuting, last>>
    ELSE IF t - last < Cooldown THEN <<isExecuting, t>>
    ELSE <<TRUE, t>>

\* onTick accepting a tick without setting executing
onTickFlagsNoFlag(isExecuting, t, last) ==
    IF tickCheck(isExecuting, t, last) = "accepted" THEN <<isExecuting, t>>
    ELSE <<isExecuting, last>>

\* <<executing, lastExecutionTime>> when onTick reaches its try block or returns
onTickFlags(isExecuting, t, last) ==
    IF tickCheck(isExecuting, t, last) = "accepted" THEN <<TRUE, t>>
    ELSE <<isExecuting, last>>

\* the context snapshot of AgentRunner.execute
Snapshot(price) ==
    [currentPrice |-> price, position |-> position, cash |-> cash, equity |-> equity]

\* a cycle suspended in phase ph: "deciding" awaits agent.decide, "executed"
\* awaits the executor's result, "settling" awaits the catch/finally of onTick
Cycle(ph, ctx, res, flt) == [phase |-> ph, context |-> ctx, result |-> res, fault |-> flt]

\* the cycles in flight with one more, one changed, one removed
WithCycle(c, rec) == [k \in DOMAIN cycles \cup {c} |-> IF k = c THEN rec ELSE cycles[k]]

WithoutCycle(c) == [k \in DOMAIN cycles \ {c} |-> cycles[k]]

\* emit('tick') calls AgentRunner.onTick, which runs up to its first await:
\* the tick is dropped, or a cycle starts and execute() takes its snapshot and
\* calls agent.decide (or getCurrentPrice throws and execute() rejects before
\* it has a context: the cycle then carries the account as it is, at price 0)
OnTickAt(prices) ==
    /\ firing
    /\ dispatch # <<>>
    /\ Head(dispatch) = "runner"
    /\ dispatch' = Tail(dispatch)
    /\ LET check == tickCheck(executing, now, lastExecutionTime)
           flags == onTickFlags(executing, now, lastExecutionTime) IN
       /\ executing' = flags[1]
       /\ lastExecutionTime' = flags[2]
       /\ tickOutcome' = check
       /\ IF check # "accepted"
          THEN UNCHANGED <<cycles, started, cycleStarts>>
          ELSE /\ started < MaxCycles
               /\ started' = started + 1
               /\ cycleStarts' = Append(cycleStarts, now)
               /\ \/ \E p \in prices :
                       cycles' = WithCycle(started + 1,
                                           Cycle("deciding", Snapshot(p), NoResult, "none"))
                  \/ cycles' = WithCycle(started + 1,
                                         Cycle("settling", Snapshot(Zero), NoResult, "oracle"))
    /\ UNCHANGED <<running, accountVars, engineVars, tickVars, listeners, firing, now,
                   onResultCalls, markPrice, escaped, lastOutcome, stopped, callVars,
                   replayVars, clientVars>>

\* AgentRunner.onTick in a market that quotes one of Prices
OnTick == OnTickAt(Prices)

\* absoluteQty sizing a HOLD like any other action
absoluteQtySizesHold(decision, eq, currentPrice) ==
    Div(Mul(decision.qty, eq), currentPrice)

\* absoluteQty of AgentRunner.execute
absoluteQty(decision, eq, currentPrice) ==
    IF decision.action = "HOLD" THEN Zero
    ELSE Div(Mul(decision.qty, eq), currentPrice)

\* agent.decide resolves to decision (resp is the response an LLMAgent made it
\* from): execute() logs the decision, sizes the order and calls
\* executor.execute; decision.qty.toFixed throws when qty is not a number, and
\* execute() rejects before it sizes anything
Decide(c, resp, decision) ==
    /\ ~firing
    /\ c \in DOMAIN cycles
    /\ cycles[c].phase = "deciding"
    /\ decided' = [response |-> resp, decision |-> decision]
    /\ LET ctx == cycles[c].context IN
       IF IsNumber(decision.qty)
       THEN LET qty == absoluteQty(decision, equity, ctx.currentPrice)
                res == paperExecute(slippage, takerFee, decision.action, qty, ctx) IN
            /\ cycles' = WithCycle(c, Cycle("executed", ctx, res, "none"))
            /\ order' = [n |-> c, action |-> decision.action, qty |-> qty,
                         context |-> ctx, result |-> res]
       ELSE /\ cycles' = WithCycle(c, Cycle("settling", ctx, NoResult, "log"))
            /\ order' = order
    /\ UNCHANGED <<runnerVars, accountVars, engineVars, tickVars, listeners, emitVars,
                   now, historyVars, lots,
                   replayVars, clientVars>>

\* decide() of an Agent resolves
DecideReturns(c, decision) == Decide(c, NoResponse, decision)


\* agent.decide rejects, or an executor other than PaperExecutor rejects:
\* execute() rejects before the commit
CycleFaults(c, flt) ==
    /\ ~firing
    /\ c \in DOMAIN cycles
    /\ cycles[c].phase = "deciding"
    /\ cycles' = WithCycle(c, Cycle("settling", cycles[c].context, NoResult, flt))
    /\ UNCHANGED <<runnerVars, accountVars, engineVars, tickVars, listeners, emitVars,
                   now, historyVars, callVars,
                   replayVars, clientVars>>

\* decide() of an LLMAgent settles on the response resp of its request
LLMDecides(c, resp) ==
    LET d == llmDecide(resp) IN
    IF d = Thrown THEN CycleFaults(c, "decide") ELSE Decide(c, resp, d)

\* the fills accumulated into the position, after result res of a call made
\* with context: a fill of positive quantity from NONE starts a run, a fill of
\* positive quantity on the same side continues it, any other fill ends it
lotsAfter(l, context, res) ==
    IF ~res.success \/ res.action = "HOLD" THEN l
    ELSE LET side == IF res.action = "BUY" THEN "LONG" ELSE "SHORT" IN
         IF ~Gt(res.qty, Zero) THEN NoLots
         ELSE IF context.position.side = "NONE"
         THEN [side |-> side, count |-> 1, qty |-> res.qty, cost |-> Mul(res.price, res.qty)]
         ELSE IF context.position.side = side /\ l.side = side
         THEN [side |-> side, count |-> l.count + 1, qty |-> Add(l.qty, res.qty),
               cost |-> Add(l.cost, Mul(res.price, res.qty))]
         ELSE NoLots

\* a commit that leaves equity behind
committedPartial(res) ==
    IF res.success THEN <<res.cash, res.position, equity>>
    ELSE <<cash, position, equity>>

\* the account after the commit of result res
committed(res) ==
    IF res.success THEN <<res.cash, res.position, res.equity>>
    ELSE <<cash, position, equity>>

\* the executor's result arrives: execute() commits it and calls onResult,
\* which returns (threw = FALSE) or throws
Commit(c, threw) ==
    /\ ~firing
    /\ c \in DOMAIN cycles
    /\ cycles[c].phase = "executed"
    /\ LET res == cycles[c].result
           acct == committed(res) IN
       /\ cash' = acct[1] /\ position' = acct[2] /\ equity' = acct[3]
       /\ markPrice' = IF res.success /\ res.action # "HOLD"
                       THEN cycles[c].context.currentPrice ELSE markPrice
       /\ onResultCalls' = [onResultCalls EXCEPT ![c] = @ + 1]
       /\ cycles' = WithCycle(c, Cycle("settling", cycles[c].context, res,
                                       IF threw THEN "onResult" ELSE "none"))
    /\ UNCHANGED <<runnerVars, engineVars, tickVars, listeners, emitVars, now,
                   started, cycleStarts, escaped, tickOutcome, lastOutcome, stopped,
                   callVars,
                   replayVars, clientVars>>

\* how a cycle ended: the fault that rejected execute(), or what its result was
outcomeOf(cyc) ==
    IF cyc.fault # "none" THEN cyc.fault
    ELSE IF cyc.result.success THEN "committed" ELSE "failed"

\* a catch block that rethrows
escapesRethrow(flt) == flt # "none"

\* what the try/catch/finally of onTick lets out: nothing, the catch has no filter
escapes(flt) == FALSE

\* onTick clearing executing at the end of its try block, not in a finally
SettleNoFinally(c) ==
    /\ ~firing
    /\ c \in DOMAIN cycles
    /\ cycles[c].phase = "settling"
    /\ executing' = (executing /\ cycles[c].fault # "none")
    /\ escaped' = escaped
    /\ lastOutcome' = outcomeOf(cycles[c])
    /\ cycles' = WithoutCycle(c)
    /\ decided' = NoDecision
    /\ order' = NoOrder
    /\ UNCHANGED <<running, lastExecutionTime, accountVars, engineVars, tickVars,
                   listeners, emitVars, now, started, cycleStarts, onResultCalls,
                   markPrice, tickOutcome, stopped, lots,
                   replayVars, clientVars>>

\* the catch and finally blocks of AgentRunner.onTick
Settle(c) ==
    /\ ~firing
    /\ c \in DOMAIN cycles
    /\ cycles[c].phase = "settling"
    /\ executing' = FALSE
    /\ escaped' = (escaped \/ escapes(cycles[c].fault))
    /\ lastOutcome' = outcomeOf(cycles[c])
    /\ cycles' = WithoutCycle(c)
    /\ decided' = NoDecision
    /\ order' = NoOrder
    /\ UNCHANGED <<running, lastExecutionTime, accountVars, engineVars, tickVars,
                   listeners, emitVars, now, started, cycleStarts, onResultCalls,
                   markPrice, tickOutcome, stopped, lots,
                   replayVars, clientVars>>

\* Date.now() advances
ClockAdvances ==
    /\ ~firing
    /\ now < MaxTime
    /\ now' = now + 1
    /\ UNCHANGED <<runnerVars, accountVars, cycles, engineVars, tickVars, listeners,
                   emitVars, historyVars, callVars,
                   replayVars, clientVars>>

Next ==
    \/ OtherOnTick
    \/ OtherOffTick
    \/ TimerFires
    \/ OtherReturns
    \/ EmitReturns
    \/ RunnerStart
    \/ RunnerStop
    \/ OnTick
    \/ \E c \in 1..MaxCycles : \E d \in Decisions : DecideReturns(c, d)
    \/ \E c \in 1..MaxCycles : \E f \in {"decide", "executor"} : CycleFaults(c, f)
    \/ \E c \in 1..MaxCycles : \E threw \in BOOLEAN : Commit(c, threw)
    \/ \E c \in 1..MaxCycles : Settle(c)
    \/ ClockAdvances

\* the scheduler on its tick source, with one foreign subscriber
Spec == Init /\ [][Next]_vars

\* a promise continuation that is ready runs
Continue == \E c \in 1..MaxCycles : (\E threw \in BOOLEAN : Commit(c, threw)) \/ Settle(c)

\* Spec on an event loop: synchronous code runs to its end, and a continuation
\* whose promise has settled runs, however often timers fire in between (the
\* event loop drains its microtasks before it runs the next timer callback);
\* the Decision Provider may never answer
FairSpec ==
    /\ Spec
    /\ WF_vars(OtherReturns)
    /\ WF_vars(OnTick)
    /\ WF_vars(EmitReturns)
    /\ SF_vars(Continue)

TickNext ==
    \/ TickStart
    \/ TickStop
    \/ OtherOnTick
    \/ OtherOffTick
    \/ TimerFires
    \/ OtherReturns
    \/ OtherThrows
    \/ EmitReturns
    \/ ClockAdvances

\* the tick source alone, driven by its subscribers as time passes
TickSpec == Init /\ [][TickNext]_vars

\* the engine on its own: a PaperExecutor of some configuration and an account
EngineInit ==
    /\ running = FALSE
    /\ executing = FALSE
    /\ lastExecutionTime = 0
    /\ \E c0 \in EngineCash : cash = c0 /\ equity = c0
    /\ position = NonePosition
    /\ cycles = <<>>
    /\ \E cfg \in EngineSetups : slippage = cfg[1] /\ takerFee = cfg[2]
    /\ tickRunning = FALSE
    /\ timer = "null"
    /\ orphans = 0
    /\ listeners = <<>>
    /\ firing = FALSE
    /\ dispatch = <<>>
    /\ now = Cooldown
    /\ started = 0
    /\ cycleStarts = <<>>
    /\ onResultCalls = [c \in 1..MaxCycles |-> 0]
    /\ markPrice = Zero
    /\ escaped = FALSE
    /\ tickOutcome = "none"
    /\ lastOutcome = "none"
    /\ stopped = FALSE
    /\ decided = NoDecision
    /\ order = NoOrder
    /\ lots = NoLots
    /\ calls = <<>>
    /\ replayed = NoReplay
    /\ ws = 0
    /\ reconnectTimer = 0
    /\ pingTimer = FALSE
    /\ pingOrphans = 0
    /\ sockets = <<>>
    /\ disconnected = FALSE
    /\ reconnected = FALSE

\* an executor that keeps the position of its last result to itself and works
\* on it, whatever position the context carries
executorCallKeepsPosition(action, qty, context) ==
    paperExecute(slippage, takerFee, action, qty, [context EXCEPT !.position = position])

\* execute() of the PaperExecutor as it was constructed
executorCall(action, qty, context) ==
    paperExecute(slippage, takerFee, action, qty, context)

\* executor.execute(action, qty, context) called with the account as context
\* at some price, and its result taken over as execute() of the runner does
EngineStep(action, qty, price) ==
    /\ LET ctx == Snapshot(price)
           res == executorCall(action, qty, ctx)
           acct == committed(res) IN
       /\ cash' = acct[1] /\ position' = acct[2] /\ equity' = acct[3]
       /\ markPrice' = IF res.success /\ res.action # "HOLD" THEN price ELSE markPrice
       /\ order' = [n |-> order.n + 1, action |-> action, qty |-> qty,
                    context |-> ctx, result |-> res]
       /\ lots' = lotsAfter(lots, ctx, res)
    /\ UNCHANGED <<runnerVars, cycles, engineVars, tickVars, listeners, emitVars, now,
                   started, cycleStarts, onResultCalls, escaped, tickOutcome,
                   lastOutcome, stopped, decided, clientVars>>

\* one of up to MaxOrders calls of the executor
EngineCall(action, qty, price) ==
    /\ order.n < MaxOrders
    /\ EngineStep(action, qty, price)
    /\ UNCHANGED replayVars

EngineNext ==
    \E action \in {"HOLD", "BUY", "SELL"} : \E qty \in EngineQtys :
        \E price \in EnginePrices : EngineCall(action, qty, price)

\* the execution engine called MaxOrders times in a row
EngineSpec == EngineInit /\ [][EngineNext]_vars

\* one of up to MaxCalls calls of the executor, kept with its context and result
LoggedCall(action, qty, price) ==
    /\ Len(calls) < MaxCalls
    /\ EngineStep(action, qty, price)
    /\ calls' = Append(calls, [action |-> action, qty |-> qty,
                               context |-> Snapshot(price),
                               result |-> executorCall(action, qty, Snapshot(price))])
    /\ replayed' = NoReplay

\* the i-th call is made again, with the action, the quantity and the context
\* it was made with; its result is looked at and dropped
Replay(i) ==
    /\ i \in DOMAIN calls
    /\ replayed' = [i |-> i,
                    result |-> executorCall(calls[i].action, calls[i].qty,
                                            calls[i].context)]
    /\ UNCHANGED <<runnerVars, accountVars, cycles, engineVars, tickVars, listeners,
                   emitVars, now, historyVars, callVars, calls, clientVars>>

ReplayNext ==
    \/ \E action \in {"HOLD", "BUY", "SELL"} : \E qty \in ReplayQtys :
           \E price \in ReplayPrices : LoggedCall(action, qty, price)
    \/ \E i \in 1..MaxCalls : Replay(i)

\* the execution engine called up to MaxCalls times, with earlier calls made
\* again in between
ReplaySpec == EngineInit /\ [][ReplayNext]_vars

RunnerNext ==
    \/ TimerFires
    \/ EmitReturns
    \/ RunnerStart
    \/ OnTick
    \/ \E c \in 1..MaxCycles : \E d \in AnyDecisions : DecideReturns(c, d)
    \/ \E c \in 1..MaxCycles : \E f \in {"decide", "executor"} : CycleFaults(c, f)
    \/ \E c \in 1..MaxCycles : \E threw \in BOOLEAN : Commit(c, threw)
    \/ \E c \in 1..MaxCycles : Settle(c)
    \/ ClockAdvances

\* the scheduler with an Agent that may return anything
RunnerSpec == Init /\ [][RunnerNext]_vars

LLMNext ==
    \/ TimerFires
    \/ EmitReturns
    \/ RunnerStart
    \/ OnTick
    \/ \E c \in 1..MaxCycles : \E resp \in Responses : LLMDecides(c, resp)
    \/ \E c \in 1..MaxCycles : \E threw \in BOOLEAN : Commit(c, threw)
    \/ \E c \in 1..MaxCycles : Settle(c)
    \/ ClockAdvances

\* the scheduler with an LLMAgent
LLMSpec == Init /\ [][LLMNext]_vars

\* AgentRunner.onTick in a market that moves by a factor of four, with a price
\* source that answers 0 for a symbol it has no price of
OnTickVolatile == OnTickAt(SessionPrices)

\* Date.now() advances by the cooldown: the next tick is not dropped for it
CooldownElapses ==
    /\ ~firing
    /\ now + Cooldown <= Cooldown * MaxCycles
    /\ now' = now + Cooldown
    /\ UNCHANGED <<runnerVars, accountVars, cycles, engineVars, tickVars, listeners,
                   emitVars, historyVars, callVars,
                   replayVars, clientVars>>

SessionNext ==
    \/ TimerFires
    \/ EmitReturns
    \/ RunnerStart
    \/ OnTickVolatile
    \/ \E c \in 1..MaxCycles : \E d \in Decisions : DecideReturns(c, d)
    \/ \E c \in 1..MaxCycles : \E threw \in BOOLEAN : Commit(c, threw)
    \/ \E c \in 1..MaxCycles : Settle(c)
    \/ CooldownElapses

\* a trading session of MaxCycles cycles, one per cooldown, with an Agent that
\* returns typed decisions
SessionSpec == Init /\ [][SessionNext]_vars

(***************************************************************************)
(* OrderlyWebSocketClient.                                                 *)
(***************************************************************************)
\* new WebSocket(url) in connect(): one more socket, which this.ws now holds
newSocket ==
    /\ Len(sockets) < MaxSockets
    /\ sockets' = Append(sockets, [state |-> "connecting", auth |-> FALSE])
    /\ ws' = Len(sockets) + 1

\* the timers pending after scheduleReconnect
scheduleReconnect(pending) == IF pending > 0 THEN pending ELSE pending + 1

\* connect() called by the user
ClientConnect ==
    /\ newSocket
    /\ disconnected' = FALSE
    /\ reconnected' = FALSE
    /\ UNCHANGED <<runnerVars, accountVars, cycles, engineVars, tickVars, listeners,
                   emitVars, now, historyVars, callVars, replayVars, reconnectTimer,
                   pingTimer, pingOrphans>>

\* socket s opens: its 'open' handler runs up to the await in sendAuth
SocketOpens(s) ==
    /\ s \in DOMAIN sockets
    /\ sockets[s].state = "connecting"
    /\ sockets' = [sockets EXCEPT ![s] = [state |-> "open", auth |-> TRUE]]
    /\ UNCHANGED <<runnerVars, accountVars, cycles, engineVars, tickVars, listeners,
                   emitVars, now, historyVars, callVars, replayVars, ws,
                   reconnectTimer, pingTimer, pingOrphans, disconnected, reconnected>>

\* signAuth resolves: the 'open' handler of socket s sends the auth message on
\* this.ws, if there is one, and calls startPingInterval, which sets
\* this.pingTimer whatever it held; send() may throw when this.ws is a socket
\* that is not open, and the handler then ends there
AuthResolves(s, threw) ==
    /\ s \in DOMAIN sockets
    /\ sockets[s].auth
    /\ threw => (ws # 0 /\ sockets[ws].state # "open")
    /\ sockets' = [sockets EXCEPT ![s].auth = FALSE]
    /\ IF threw
       THEN UNCHANGED <<pingTimer, pingOrphans>>
       ELSE /\ pingTimer' = TRUE
            /\ pingOrphans' = pingOrphans + (IF pingTimer THEN 1 ELSE 0)
    /\ UNCHANGED <<runnerVars, accountVars, cycles, engineVars, tickVars, listeners,
                   emitVars, now, historyVars, callVars, replayVars, ws,
                   reconnectTimer, disconnected, reconnected>>

\* socket s closes, by itself or after close(): its 'close' handler calls
\* stopPingInterval and scheduleReconnect
SocketCloses(s) ==
    /\ s \in DOMAIN sockets
    /\ sockets[s].state \in {"connecting", "open", "closing"}
    /\ sockets' = [sockets EXCEPT ![s].state = "closed"]
    /\ pingTimer' = FALSE
    /\ reconnectTimer' = scheduleReconnect(reconnectTimer)
    /\ UNCHANGED <<runnerVars, accountVars, cycles, engineVars, tickVars, listeners,
                   emitVars, now, historyVars, callVars, replayVars, ws, pingOrphans,
                   disconnected, reconnected>>

\* a timer of scheduleReconnect fires: it clears this.reconnectTimer and
\* calls connect()
ReconnectFires ==
    /\ reconnectTimer > 0
    /\ reconnectTimer' = reconnectTimer - 1
    /\ newSocket
    /\ reconnected' = disconnected
    /\ UNCHANGED <<runnerVars, accountVars, cycles, engineVars, tickVars, listeners,
                   emitVars, now, historyVars, callVars, replayVars, pingTimer,
                   pingOrphans, disconnected>>

\* disconnect() called by the user
ClientDisconnect ==
    /\ pingTimer' = FALSE
    /\ reconnectTimer' = 0
    /\ IF ws = 0
       THEN UNCHANGED sockets
       ELSE sockets' = [sockets EXCEPT ![ws].state =
                            IF @ \in {"connecting", "open"} THEN "closing" ELSE @]
    /\ ws' = 0
    /\ disconnected' = TRUE
    /\ reconnected' = FALSE
    /\ UNCHANGED <<runnerVars, accountVars, cycles, engineVars, tickVars, listeners,
                   emitVars, now, historyVars, callVars, replayVars, pingOrphans>>

ClientNext ==
    \/ ClientConnect
    \/ \E s \in 1..MaxSockets : SocketOpens(s)
    \/ \E s \in 1..MaxSockets : \E threw \in BOOLEAN : AuthResolves(s, threw)
    \/ \E s \in 1..MaxSockets : SocketCloses(s)
    \/ ReconnectFires
    \/ ClientDisconnect

\* the WebSocket client, its sockets and its user
ClientSpec == Init /\ [][ClientNext]_vars

(***************************************************************************)
(* Properties.                                                             *)
(***************************************************************************)
InFlight == DOMAIN cycles

Account == <<cash, position, equity>>

\* the step is a call of AgentRunner.onTick by emit('tick')
OnTickStep == firing /\ dispatch # <<>> /\ Head(dispatch) = "runner" /\ dispatch' = Tail(dispatch)

\* C1: at most one execution cycle is in flight at any time, executing is true
\* exactly while one is, and no cycle reports (and so commits) more than once
C1_AtMostOneCycleInFlight ==
    /\ Cardinality(InFlight) <= 1
    /\ executing <=> InFlight # {}
    /\ \A c \in 1..MaxCycles : onResultCalls[c] <= 1

\* a tick past the cooldown was dropped because a cycle was in flight
C1_Witness ==
    /\ tickOutcome = "executing"
    /\ now - lastExecutionTime >= Cooldown
    /\ Cardinality(InFlight) = 1

\* C2: any two cycles start at least Cooldown apart
C2_CooldownBetweenStarts ==
    \A i \in 1..(Len(cycleStarts) - 1) : cycleStarts[i + 1] - cycleStarts[i] >= Cooldown

\* after a restart and a fault, a tick inside the cooldown was dropped, and a
\* second cycle had started once the cooldown was over
C2_Witness ==
    /\ Len(cycleStarts) = 2
    /\ tickOutcome = "cooldown"
    /\ stopped
    /\ lastOutcome \in {"decide", "executor", "oracle", "onResult"}

\* C3: once the Decision Provider has answered or thrown (the cycle is past its
\* decide), executing becomes false; and a tick that onTick receives with
\* executing false and the cooldown over starts a cycle
C3_ExecutingCleared ==
    /\ \A c \in 1..MaxCycles :
          (c \in InFlight /\ cycles[c].phase # "deciding") ~> ~executing
    /\ [][(OnTickStep /\ ~executing /\ now - lastExecutionTime >= Cooldown)
              => started' = started + 1]_vars

\* a cycle started after an earlier cycle had ended in a fault
C3_Witness ==
    /\ started = 2
    /\ lastOutcome \in {"decide", "executor", "oracle", "onResult"}
    /\ 2 \in InFlight

\* C4: the account changes only in the commit of a successful result, to that
\* result's cash, position and equity; the commit of a failed result leaves it
\* unchanged; either commit calls onResult, once per cycle
C4_CommitOnly ==
    /\ [][/\ (Account' # Account) =>
                (\E c \in InFlight :
                    /\ cycles[c].phase = "executed"
                    /\ cycles[c].result.success
                    /\ c \in DOMAIN cycles'
                    /\ cycles'[c].phase = "settling"
                    /\ Account' = <<cycles[c].result.cash, cycles[c].result.position,
                                    cycles[c].result.equity>>)
          /\ (\A k \in InFlight :
                  (cycles[k].phase = "executed" /\ k \in DOMAIN cycles'
                       /\ cycles'[k].phase = "settling") =>
                     (/\ onResultCalls'[k] = onResultCalls[k] + 1
                      /\ ~cycles[k].result.success => Account' = Account))]_vars
    /\ [](\A c \in 1..MaxCycles : onResultCalls[c] <= 1)

\* a failed result was reported to onResult, after an earlier fill had been committed
C4_Witness ==
    /\ position.side # "NONE"
    /\ \E c \in InFlight :
          /\ cycles[c].phase = "settling"
          /\ cycles[c].fault = "none"
          /\ ~cycles[c].result.success
          /\ onResultCalls[c] = 1

\* the account is what it was when cycle c took its snapshot
UnchangedSince(c) ==
    Account = <<cycles[c].context.cash, cycles[c].context.position, cycles[c].context.equity>>

\* the step ends a cycle
SettleStep == InFlight' # InFlight /\ InFlight' \subseteq InFlight

\* C5 as stated: whatever step of a cycle throws, the account is unchanged, executing is
\* cleared and nothing leaves onTick
C5_AnyFaultLeavesAccount ==
    /\ ~escaped
    /\ \A c \in InFlight :
          (cycles[c].phase = "settling" /\ cycles[c].fault # "none") => UnchangedSince(c)

\* C5 amended: a fault before the commit (price oracle, Decision Provider,
\* executor) leaves the account unchanged; when onResult throws the account is
\* what the commit made it; in every case executing is cleared and nothing
\* leaves onTick
C5_FaultBeforeCommitLeavesAccount ==
    /\ [](~escaped)
    /\ [](\A c \in InFlight :
            /\ (cycles[c].phase = "settling"
                    /\ cycles[c].fault \in {"oracle", "decide", "executor"})
                  => UnchangedSince(c)
            /\ (cycles[c].phase = "settling" /\ cycles[c].fault = "onResult")
                  => IF cycles[c].result.success
                     THEN Account = <<cycles[c].result.cash, cycles[c].result.position,
                                      cycles[c].result.equity>>
                     ELSE UnchangedSince(c))
    /\ [][SettleStep => ~executing']_vars

\* a cycle whose Decision Provider threw has ended
C5_Witness ==
    /\ lastOutcome = "decide"
    /\ ~executing
    /\ InFlight = {}
    /\ Account = <<InitialCash, NonePosition, InitialCash>>

\* C6: a dropped tick changes nothing of the scheduler, and a cycle starts only
\* in the onTick call of a tick that passes both checks
C6_DroppedTickNoEffect ==
    [][/\ (OnTickStep /\ (executing \/ now - lastExecutionTime < Cooldown))
            => UNCHANGED <<cash, position, equity, executing, lastExecutionTime,
                           cycles, started>>
       /\ started' # started
            => /\ OnTickStep
               /\ ~executing
               /\ now - lastExecutionTime >= Cooldown
               /\ started' = started + 1]_vars

\* a tick was dropped by the cooldown with no cycle in flight
C6_Witness ==
    /\ tickOutcome = "cooldown"
    /\ started = 1
    /\ InFlight = {}

\* C7 as stated: no cycle starts while the scheduler is stopped, and stop()
\* leaves a cycle in flight as it is
C7_NoCycleAfterStop ==
    [][/\ started' # started => running
       /\ (running /\ ~running') => UNCHANGED <<cycles, executing, cash, position, equity>>]_vars

\* C8: the scheduler's callback is registered once while running and not at all
\* while stopped, and an emit calls it at most once
C8_RegisteredOnce ==
    /\ Count(listeners, "runner") = (IF running THEN 1 ELSE 0)
    /\ Count(dispatch, "runner") <= 1

\* running again after a stop, next to a foreign subscriber, with a tick being delivered
C8_Witness ==
    /\ running
    /\ stopped
    /\ Count(listeners, "other") = 1
    /\ firing
    /\ Count(dispatch, "runner") = 1

\* unrealized profit of a position marked at price
unrealizedPnL(pos, price) ==
    IF pos.side = "LONG" THEN Mul(Sub(price, pos.avgPrice), AbsR(pos.qty))
    ELSE IF pos.side = "SHORT" THEN Mul(Sub(pos.avgPrice, price), AbsR(pos.qty))
    ELSE Zero

\* C9 as stated: equity = cash + unrealizedPnL(position, mark price) in every
\* account state
C9_EquityIdentity == EqNum(equity, Add(cash, unrealizedPnL(position, markPrice)))

\* C10 as stated: side NONE goes with qty 0 and avgPrice 0, any other side with
\* a quantity of positive magnitude
C10_PositionWellFormed ==
    /\ position.side = "NONE" => position.qty = Zero /\ position.avgPrice = Zero
    /\ position.side # "NONE" => Gt(AbsR(position.qty), Zero)

\* the fill price of the last executor call, as the engine's contract gives it
OrderFill ==
    IF order.action = "BUY" THEN Mul(order.context.currentPrice, Add(One, slippage))
    ELSE IF order.action = "SELL" THEN Mul(order.context.currentPrice, Sub(One, slippage))
    ELSE order.context.currentPrice

\* the last executor call failed with an error and returned its context's values
OrderRejected ==
    /\ ~order.result.success
    /\ order.result.error
    /\ order.result.cash = order.context.cash
    /\ order.result.position = order.context.position
    /\ order.result.equity = order.context.equity

\* the account is what the context of the last executor call was
AccountAsContext ==
    Account = <<order.context.cash, order.context.position, order.context.equity>>

\* C11: a BUY on a NONE or LONG position that needs more than context.cash
\* (qty * fillPrice * (1 + takerFee)) fails with an error and returns the
\* context's cash, position and equity; one that needs no more succeeds
C11_InsufficientFunds ==
    (order.action = "BUY" /\ order.context.position.side \in {"NONE", "LONG"}) =>
        LET required == Mul(Mul(order.qty, OrderFill), Add(One, takerFee)) IN
        /\ Gt(required, order.context.cash) => (OrderRejected /\ AccountAsContext)
        /\ Ge(order.context.cash, required) => order.result.success

\* a BUY that would add to a LONG position was refused for lack of cash
C11_Witness ==
    /\ order.action = "BUY"
    /\ order.context.position.side = "LONG"
    /\ Gt(order.context.position.qty, Zero)
    /\ takerFee # Zero
    /\ OrderRejected

\* realized P&L of closing the whole short of the last call's context at its fill
OrderShortClosePnl ==
    LET shortQty == AbsR(order.context.position.qty) IN
    Sub(Mul(Sub(order.context.position.avgPrice, OrderFill), shortQty),
        Mul(Mul(shortQty, OrderFill), takerFee))

\* cash the long remainder of a BUY that flips the short of the context needs
OrderFlipRequired ==
    Mul(Mul(Sub(order.qty, AbsR(order.context.position.qty)), OrderFill), Add(One, takerFee))

\* C12: on a BUY that flips a SHORT the long remainder is checked against
\* context.cash + pnl of the closing leg; when it needs more the call fails
\* with the context's cash, position and equity and the short stays open
C12_FlipCashCheck ==
    (/\ order.action = "BUY"
     /\ order.context.position.side = "SHORT"
     /\ Gt(order.qty, AbsR(order.context.position.qty))) =>
        LET available == Add(order.context.cash, OrderShortClosePnl) IN
        /\ Gt(OrderFlipRequired, available) =>
               (OrderRejected /\ AccountAsContext /\ position.side = "SHORT")
        /\ Ge(available, OrderFlipRequired) => order.result.success

\* a flip was refused although the cash of the context covered the remainder:
\* the loss of the closing leg had been taken off first
C12_Witness ==
    /\ order.action = "BUY"
    /\ order.context.position.side = "SHORT"
    /\ Gt(order.qty, AbsR(order.context.position.qty))
    /\ OrderRejected
    /\ Ge(order.context.cash, OrderFlipRequired)
    /\ position.side = "SHORT"

\* C13: execute(HOLD, q, ctx) succeeds with qty 0 and the context's cash,
\* position and equity for every q and ctx, and the account that takes the
\* result over is unchanged
C13_HoldInvariance ==
    order.action = "HOLD" =>
        /\ order.result.success
        /\ order.result.action = "HOLD"
        /\ order.result.qty = Zero
        /\ order.result.cash = order.context.cash
        /\ order.result.position = order.context.position
        /\ order.result.equity = order.context.equity
        /\ AccountAsContext

\* a HOLD was called with a positive quantity on an open position
C13_Witness ==
    /\ order.action = "HOLD"
    /\ Gt(order.qty, Zero)
    /\ order.context.position.side # "NONE"
    /\ order.result.success

\* realized P&L of closing the whole long of the last call's context at its fill
OrderLongClosePnl ==
    LET longQty == order.context.position.qty IN
    Sub(Mul(Sub(OrderFill, order.context.position.avgPrice), longQty),
        Mul(Mul(longQty, OrderFill), takerFee))

\* the last call was SELL 3 at price 110 on LONG 1 @ 100, with no slippage and no fee
FlipExample ==
    /\ slippage = Zero
    /\ takerFee = Zero
    /\ order.action = "SELL"
    /\ order.qty = R(3, 1)
    /\ order.context.currentPrice = R(110, 1)
    /\ order.context.position = [qty |-> One, avgPrice |-> R(100, 1), side |-> "LONG"]

\* C14: a SELL of more than the long quantity realizes (fillPrice - avg) * longQty
\* less the fee on longQty * fillPrice and leaves a SHORT of qty - longQty at
\* the fill price; a BUY of more than the short quantity that succeeds does the
\* same with the roles swapped; LONG 1 @ 100, SELL 3 at 110 with no slippage
\* and no fee gives pnl 10 and SHORT 2 @ 110
C14_FlipCorrectness ==
    /\ (/\ order.action = "SELL"
        /\ order.context.position.side = "LONG"
        /\ Gt(order.qty, order.context.position.qty)) =>
           /\ order.result.success
           /\ order.result.pnl = OrderLongClosePnl
           /\ order.result.position =
                 [qty |-> Neg(Sub(order.qty, order.context.position.qty)),
                  avgPrice |-> OrderFill, side |-> "SHORT"]
    /\ (/\ order.action = "BUY"
        /\ order.context.position.side = "SHORT"
        /\ Gt(order.qty, AbsR(order.context.position.qty))
        /\ order.result.success) =>
           /\ order.result.pnl = OrderShortClosePnl
           /\ order.result.position =
                 [qty |-> Sub(order.qty, AbsR(order.context.position.qty)),
                  avgPrice |-> OrderFill, side |-> "LONG"]
    /\ FlipExample =>
           /\ order.result.pnl = R(10, 1)
           /\ position = [qty |-> R(-2, 1), avgPrice |-> R(110, 1), side |-> "SHORT"]

\* the example of the claim was executed
C14_Witness ==
    /\ FlipExample
    /\ order.result.success
    /\ position.side = "SHORT"

\* C15: after a run of successful fills of positive quantity that began at NONE
\* and all went the same way, the position has that side, the summed quantity
\* and an average price with avgPrice * sum(qi) = sum(pi * qi)
C15_AveragePrice ==
    lots.side # "NONE" =>
        /\ position.side = lots.side
        /\ AbsR(position.qty) = lots.qty
        /\ position.qty = (IF lots.side = "LONG" THEN lots.qty ELSE Neg(lots.qty))
        /\ Mul(position.avgPrice, lots.qty) = lots.cost

\* three BUYs from NONE at fill prices that differ left an average price that
\* is none of the fill prices
C15_Witness ==
    /\ lots.side = "LONG"
    /\ lots.count = 3
    /\ order.action = "BUY"
    /\ order.result.success
    /\ \A p \in EnginePrices : position.avgPrice # Mul(p, Add(One, slippage))

\* C16 as stated: a SELL that closes a LONG (partially or fully) and a BUY that
\* closes a SHORT both change cash by exactly the realized P&L of the closed
\* quantity: (fillPrice - avgPrice) * closedQty - fee for the SELL,
\* (avgPrice - fillPrice) * closedQty - fee for the BUY
C16_ClosingLegsSameCashRule ==
    /\ (/\ order.action = "SELL"
        /\ order.context.position.side = "LONG"
        /\ Gt(order.qty, Zero)
        /\ Ge(order.context.position.qty, order.qty)
        /\ order.result.success) =>
           LET fee == Mul(Mul(order.qty, OrderFill), takerFee)
               pnl == Sub(Mul(Sub(OrderFill, order.context.position.avgPrice), order.qty), fee) IN
           /\ order.result.pnl = pnl
           /\ order.result.cash = Add(order.context.cash, pnl)
    /\ (/\ order.action = "BUY"
        /\ order.context.position.side = "SHORT"
        /\ Gt(order.qty, Zero)
        /\ Ge(AbsR(order.context.position.qty), order.qty)
        /\ order.result.success) =>
           LET fee == Mul(Mul(order.qty, OrderFill), takerFee)
               pnl == Sub(Mul(Sub(order.context.position.avgPrice, OrderFill), order.qty), fee) IN
           /\ order.result.pnl = pnl
           /\ order.result.cash = Add(order.context.cash, pnl)

\* the response cannot be parsed, or is an error, or names no action of BUY, SELL, HOLD
MalformedResponse(resp) ==
    \/ resp.kind \in {"error", "text"}
    \/ resp.kind = "json" /\ resp.action \notin {"BUY", "SELL", "HOLD"}

\* the last executor call was a HOLD of quantity 0 that echoed its context
OrderHeld ==
    /\ order.n # 0
    /\ order.action = "HOLD"
    /\ order.qty = Zero
    /\ order.result.success
    /\ order.result.qty = Zero
    /\ AccountAsContext

\* C17: a response of the Decision Provider that is an error, cannot be parsed,
\* or has no action of BUY, SELL, HOLD becomes the decision HOLD with qty 0
\* before sizing, and decide() raises nothing to the scheduler
C17_MalformedResponseHolds ==
    /\ lastOutcome \notin {"decide", "log"}
    /\ \A c \in InFlight : cycles[c].fault \notin {"decide", "log"}
    /\ (decided # NoDecision /\ MalformedResponse(decided.response)) =>
           (decided.decision = HoldDecision /\ OrderHeld)

\* with a position open, a response whose action is unknown was held
C17_Witness ==
    /\ decided.response.kind = "json"
    /\ decided.response.action = "DANCE"
    /\ decided.decision = HoldDecision
    /\ OrderHeld
    /\ position.side # "NONE"

\* the response names BUY or SELL with a qty that is no number in [0,1]
OutOfRangeResponse(resp) ==
    /\ resp.kind = "json"
    /\ resp.action \in {"BUY", "SELL"}
    /\ ~IsNumber(resp.qty) \/ Gt(Zero, resp.qty) \/ Gt(resp.qty, One)

Tradable(decision) ==
    /\ decision.action \in {"BUY", "SELL"}
    /\ IsNumber(decision.qty)
    /\ Ge(decision.qty, Zero)
    /\ Ge(One, decision.qty)

\* C19 as stated: whatever decide() returns, the executor is called, with BUY
\* or SELL only for a decision of BUY or SELL with a numeric qty in [0,1], and
\* with HOLD and quantity 0 for any other, which leaves the account unchanged
C19_SchedulerValidates ==
    decided # NoDecision =>
        /\ order.n # 0
        /\ order.action \in {"BUY", "SELL", "HOLD"}
        /\ order.action \in {"BUY", "SELL"} => Tradable(decided.decision)
        /\ ~Tradable(decided.decision) => OrderHeld

\* C20: the quantity passed to the executor is decision.qty * equity /
\* currentPrice of the cycle's context snapshot for BUY and SELL, and 0 for
\* HOLD whatever fraction the decision carries
C20_OrderSizing ==
    order.n # 0 =>
        /\ order.n \in InFlight
        /\ order.context = cycles[order.n].context
        /\ order.action = decided.decision.action
        /\ decided.decision.action = "HOLD" => order.qty = Zero
        /\ decided.decision.action \in {"BUY", "SELL"} =>
               order.qty = Div(Mul(decided.decision.qty, order.context.equity),
                               order.context.currentPrice)

\* a second cycle sized a SELL from an equity that an earlier fill had changed,
\* at a price other than 1
C20_Witness ==
    /\ order.n = 2
    /\ decided.decision = [action |-> "SELL", qty |-> R(1, 2)]
    /\ order.context.equity # InitialCash
    /\ order.context.currentPrice = R(2, 1)
    /\ Gt(order.qty, Zero)
    /\ order.result.success

\* the timer chains of the tick source: its pending timers, and the timer
\* callback in progress, which calls scheduleNext when emit('tick') returns
Chains == (IF timer = "live" THEN 1 ELSE 0) + orphans + (IF firing THEN 1 ELSE 0)

\* C23 as stated: whatever start() and stop() calls are made, start() on a
\* running source and start() after stop() included, the tick source never has
\* a second timer chain
C23_StartStopIdempotent == Chains <= 1

\* C24 as stated: while the tick source is stopped none of its timers is
\* pending, so that no tick is emitted before the next start()
C24_NoTimerAfterStop ==
    ~tickRunning => (timer # "live" /\ orphans = 0)

\* the last call was the second of a round trip at an unchanged price without
\* slippage or fee: the first call opened a position of order.qty from no
\* position, and the last one, in the opposite direction, is of the same quantity
RoundTrip ==
    /\ slippage = Zero
    /\ takerFee = Zero
    /\ order.n = 2
    /\ Gt(order.qty, Zero)
    /\ AbsR(order.context.position.qty) = order.qty
    /\ order.context.position.avgPrice = order.context.currentPrice
    /\ \/ order.action = "SELL" /\ order.context.position.side = "LONG"
       \/ order.action = "BUY" /\ order.context.position.side = "SHORT"

\* C25 as stated: a round trip ends without a position and with the cash and
\* the equity the account started with, for a LONG and for a SHORT round trip
C25_ConservationOfValue ==
    RoundTrip =>
        /\ order.result.success
        /\ position = NonePosition
        /\ \E c0 \in EngineCash : cash = c0 /\ equity = c0

\* the last BUY opens or adds to a LONG: on no position or a LONG, or of more
\* than the short quantity of its context
OrderBuysLong ==
    /\ order.action = "BUY"
    /\ \/ order.context.position.side \in {"NONE", "LONG"}
       \/ /\ order.context.position.side = "SHORT"
          /\ Gt(order.qty, AbsR(order.context.position.qty))

\* C26: an executor call fails only when it is a BUY that opens or adds to a
\* LONG; HOLD and SELL succeed for every quantity and context, a BUY of no more
\* than the short quantity succeeds, and a failed result has qty 0 and the
\* cash, position and equity of its context
C26_OnlyFailureMode ==
    order.n > 0 =>
        /\ order.action \in {"HOLD", "SELL"} => order.result.success
        /\ (/\ order.action = "BUY"
            /\ order.context.position.side = "SHORT"
            /\ Ge(AbsR(order.context.position.qty), order.qty)) => order.result.success
        /\ ~order.result.success =>
               /\ OrderBuysLong
               /\ order.result.qty = Zero
               /\ OrderRejected

\* a BUY that only closes a short succeeded although the cash of its context
\* did not cover the cost of the quantity bought
C26_Witness ==
    /\ order.action = "BUY"
    /\ order.context.position.side = "SHORT"
    /\ Gt(order.qty, Zero)
    /\ Ge(AbsR(order.context.position.qty), order.qty)
    /\ Gt(Mul(Mul(order.qty, OrderFill), Add(One, takerFee)), order.context.cash)
    /\ order.result.success

\* C28: a successful BUY on no position or a LONG takes qty * fillPrice *
\* (1 + takerFee) off the cash, adds qty to the quantity of a LONG and reports
\* pnl 0; a SELL on no position or a SHORT adds qty * fillPrice * (1 - takerFee)
\* to the cash, adds qty to the magnitude of a SHORT and reports pnl 0
C28_AccumulateDeltas ==
    LET ctx == order.context
        gross == Mul(order.qty, OrderFill) IN
    /\ (/\ order.action = "BUY"
        /\ ctx.position.side \in {"NONE", "LONG"}
        /\ order.result.success) =>
           /\ cash = Sub(ctx.cash, Mul(gross, Add(One, takerFee)))
           /\ position.side = "LONG"
           /\ position.qty = Add(ctx.position.qty, order.qty)
           /\ order.result.price = OrderFill
           /\ order.result.pnl = Zero
    /\ (/\ order.action = "SELL"
        /\ ctx.position.side \in {"NONE", "SHORT"}) =>
           /\ order.result.success
           /\ cash = Add(ctx.cash, Mul(gross, Sub(One, takerFee)))
           /\ position.side = "SHORT"
           /\ AbsR(position.qty) = Add(AbsR(ctx.position.qty), order.qty)
           /\ order.result.price = OrderFill
           /\ order.result.pnl = Zero

\* with slippage and fee, a BUY of a positive quantity has added to a LONG
C28_Witness ==
    /\ slippage # Zero
    /\ takerFee # Zero
    /\ Gt(order.qty, Zero)
    /\ order.result.success
    /\ order.action = "BUY"
    /\ order.context.position.side = "LONG"
    /\ Gt(position.qty, order.qty)

\* the last call that succeeded was of less than the open quantity of its
\* context, in the direction that reduces it
OrderPartialClose ==
    /\ order.result.success
    /\ Gt(order.qty, Zero)
    /\ Gt(AbsR(order.context.position.qty), order.qty)
    /\ \/ order.action = "BUY" /\ order.context.position.side = "SHORT"
       \/ order.action = "SELL" /\ order.context.position.side = "LONG"

\* C29: a partial close keeps side and avgPrice, takes exactly qty off the
\* magnitude of the quantity and realizes (avgPrice - fillPrice) * qty - fee on
\* a SHORT and (fillPrice - avgPrice) * qty - fee on a LONG, with
\* fee = qty * fillPrice * takerFee
C29_PartialClose ==
    OrderPartialClose =>
        LET ctx == order.context
            fee == Mul(Mul(order.qty, OrderFill), takerFee) IN
        /\ position.side = ctx.position.side
        /\ position.avgPrice = ctx.position.avgPrice
        /\ AbsR(position.qty) = Sub(AbsR(ctx.position.qty), order.qty)
        /\ order.result.hasPnl
        /\ order.result.pnl =
               IF ctx.position.side = "SHORT"
               THEN Sub(Mul(Sub(ctx.position.avgPrice, OrderFill), order.qty), fee)
               ELSE Sub(Mul(Sub(OrderFill, ctx.position.avgPrice), order.qty), fee)

\* with slippage and fee, a BUY has closed a part of a SHORT at a price other
\* than the one the short was opened at
C29_Witness ==
    /\ OrderPartialClose
    /\ slippage # Zero
    /\ takerFee # Zero
    /\ order.action = "BUY"
    /\ order.context.currentPrice # order.context.position.avgPrice
    /\ order.result.pnl # Zero

\* the last call was of exactly the open quantity of its context, in the
\* direction that closes it
OrderExactClose ==
    /\ Gt(order.qty, Zero)
    /\ AbsR(order.context.position.qty) = order.qty
    /\ \/ order.action = "BUY" /\ order.context.position.side = "SHORT"
       \/ order.action = "SELL" /\ order.context.position.side = "LONG"

\* C30: a BUY of exactly the short quantity, or a SELL of exactly the long
\* quantity, succeeds whatever the cash is, leaves the position
\* {side NONE, qty 0, avgPrice 0} and an equity equal to the cash
C30_ExactClose ==
    OrderExactClose =>
        /\ order.result.success
        /\ order.result.position = NonePosition
        /\ position = NonePosition
        /\ order.result.equity = order.result.cash
        /\ equity = cash

\* a BUY of exactly the short quantity closed the short although the cash of
\* its context was less than the long remainder check would ask for the quantity
C30_Witness ==
    /\ OrderExactClose
    /\ order.action = "BUY"
    /\ takerFee # Zero
    /\ Gt(Mul(Mul(order.qty, OrderFill), Add(One, takerFee)), order.context.cash)
    /\ position = NonePosition
    /\ equity = cash

\* x < 0
Negative(x) == Gt(Zero, x)

\* x is a number other than NaN, Infinity and -Infinity
Finite(x) == x.d > 0

\* the decision of the cycle carries a fraction in [0,1]
FractionInRange ==
    /\ IsNumber(decided.decision.qty)
    /\ Ge(decided.decision.qty, Zero)
    /\ Ge(One, decided.decision.qty)

\* C21 as stated: for a decision with qty in [0,1] the quantity passed to the
\* executor is never negative
C21_QuantityNonNegative ==
    (order.n # 0 /\ FractionInRange) => ~Negative(order.qty)

\* C22 as stated: when the price of the cycle is 0 and the decision is BUY or
\* SELL, the quantity passed to the executor is a finite number and so are the
\* cash, the equity and the position of the account
C22_ZeroPriceGuarded ==
    (/\ order.n # 0
     /\ order.context.currentPrice = Zero
     /\ decided.decision.action \in {"BUY", "SELL"}) =>
        /\ Finite(order.qty)
        /\ Finite(cash)
        /\ Finite(equity)
        /\ Finite(position.qty)
        /\ Finite(position.avgPrice)

\* C27 as stated: an executor call on a context whose cash is not negative
\* does not succeed with a negative cash, and the cash of the account is never
\* negative
C27_CashNeverNegative ==
    /\ (order.n # 0 /\ order.result.success /\ Ge(order.context.cash, Zero)
        /\ ~Negative(order.qty)) => ~Negative(order.result.cash)
    /\ ~Negative(cash)

\* C31 as stated: a BUY or a SELL of quantity 0 succeeds and returns the cash,
\* the position (side, qty, avgPrice) and the equity of its context, as a HOLD
\* does, and realizes nothing
C31_ZeroQuantityNoOp ==
    (order.action \in {"BUY", "SELL"} /\ order.qty = Zero) =>
        /\ order.result.success
        /\ order.result.cash = order.context.cash
        /\ order.result.position = order.context.position
        /\ order.result.equity = order.context.equity
        /\ order.result.pnl = Zero

\* what the executor would have returned for the last call had it been
\* configured with no slippage and no fee
OrderFrictionless == paperExecute(Zero, Zero, order.action, order.qty, order.context)

\* the last call was a fill of a positive quantity on a context without a position
OrderFillFromFlat ==
    /\ order.action \in {"BUY", "SELL"}
    /\ order.result.success
    /\ Gt(order.qty, Zero)
    /\ order.context.position.side = "NONE"

\* C32 as stated: a BUY fills at currentPrice * (1 + slippage), which is no less than
\* currentPrice, a SELL at currentPrice * (1 - slippage), which is no more; the
\* equity of the result is its cash plus its position marked at the currentPrice
\* of the context; and with slippage > 0 or takerFee > 0 a fill of a positive
\* quantity from no position leaves less equity than the same fill without them
C32_SlippageAgainstTrader ==
    LET p == order.context.currentPrice IN
    /\ (order.action = "BUY" /\ order.result.success) =>
           /\ order.result.price = Mul(p, Add(One, slippage))
           /\ Ge(order.result.price, p)
    /\ (order.action = "SELL" /\ order.result.success) =>
           /\ order.result.price = Mul(p, Sub(One, slippage))
           /\ Ge(p, order.result.price)
    /\ (order.action \in {"BUY", "SELL"} /\ order.result.success) =>
           order.result.equity =
               Add(order.result.cash, unrealizedPnL(order.result.position, p))
    /\ (OrderFillFromFlat /\ (Gt(slippage, Zero) \/ Gt(takerFee, Zero))) =>
           /\ OrderFrictionless.success
           /\ Gt(OrderFrictionless.equity, order.result.equity)

C34_NoLostUpdate ==
    \A c \in InFlight :
        cycles[c].phase \in {"deciding", "executed"} =>
            /\ cash = cycles[c].context.cash
            /\ position = cycles[c].context.position
            /\ equity = cycles[c].context.equity

\* the second cycle, started from an account the first had changed, awaits its
\* commit after the runner was stopped and started again and a tick was dropped
\* because the cycle is executing
C34_Witness ==
    /\ 2 \in InFlight
    /\ cycles[2].phase = "executed"
    /\ cycles[2].result.success
    /\ cycles[2].result.cash # cash
    /\ cash # InitialCash
    /\ stopped
    /\ running
    /\ tickOutcome = "executing"

\* the timers of the tick source that are pending
Pending == (IF timer = "live" THEN 1 ELSE 0) + orphans

\* C35 as stated: at most one timer of the tick source is pending, and exactly
\* one whenever the source is running and no tick callback is being dispatched
C35_TimerChain ==
    /\ Pending <= 1
    /\ (tickRunning /\ ~firing) => Pending = 1

\* C36 as stated: once disconnect() has been called, and until the user calls
\* connect(), no reconnect timer and no ping timer is pending and connect() is
\* not called; and at most one reconnect timer is pending at any time
C36_StaysDisconnected ==
    /\ disconnected =>
           /\ reconnectTimer = 0
           /\ ~pingTimer
           /\ pingOrphans = 0
           /\ ~reconnected
    /\ reconnectTimer <= 1
====
